---------------------------- MODULE Spec2Model ----------------------------
(***************************************************************************)
(* NomNom Studio: the credit wallet, its ledger, the batch submission      *)
(* endpoint (POST /api/process), the Stripe webhook                        *)
(* (POST /api/webhooks/stripe), the background worker (POST /api/worker)   *)
(* and the bundle endpoint (POST /api/jobs/[id]/zip), as a state machine   *)
(* over the database rows and storage objects they read and write.         *)
(*                                                                         *)
(* One user is modelled: every statement of the code is keyed by the       *)
(* user's id and touches only that user's rows.  Each awaited database     *)
(* call of a handler is one step; the plpgsql function deduct_credits is   *)
(* one transaction, split at its SELECT ... FOR UPDATE: the row lock it    *)
(* takes is held until the function returns, and its writes become         *)
(* visible together when it returns (commit).                              *)
(***************************************************************************)
EXTENDS Integers, Sequences, FiniteSets

VARIABLES
  profile,              \* the user's row of profiles: the credit wallet
  credit_transactions,  \* the rows of credit_transactions, in creation order
  profileLock,          \* the transaction holding the row lock on the profile
  processing_jobs,      \* the processing_jobs row each submission created
  processed_images,     \* the rows of processed_images
  uploads,              \* the objects of the storage bucket uploads
  dispatched,           \* job ids posted to /api/worker
  stripe_events,        \* ids recorded in stripe_events
  req,                  \* the locals of each POST /api/process call
  hook,                 \* the locals of each POST /api/webhooks/stripe call
  worker,               \* the locals of each POST /api/worker call
  notifications,        \* the rows of notifications the worker inserted
  emails,               \* the worker calls that called sendCompletionEmail
  poll,                 \* the locals of a pollNanoBanana call
  zip_bundles,          \* the rows of zip_bundles
  zips,                 \* the objects of the storage bucket zips, by job
  bundle,               \* the locals of each POST /api/jobs/[id]/zip call
  now                   \* the clock, in minutes since the start

vars == <<profile, credit_transactions, profileLock, processing_jobs,
          processed_images, uploads, dispatched, stripe_events, req, hook,
          worker, notifications, emails, poll, zip_bundles, zips, bundle,
          now>>

walletVars == <<profile, credit_transactions, profileLock>>
jobVars    == <<processing_jobs, processed_images, uploads, dispatched>>
hookVars   == <<stripe_events, hook>>
workerVars == <<worker, notifications, emails, poll>>
bundleVars == <<zip_bundles, zips, bundle, now>>

---------------------------------------------------------------------------
(* Bounds *)

MaxSubmitted == 2       \* largest valid number of files in a submission
MaxBatch == 3           \* the same, for the submission the worker is run on

\* The calls of the submission endpoint, which may all be in progress at once
Requests   == {1, 2}

\* The deliveries Stripe makes to the webhook
Deliveries == {1, 2}

\* The calls of the worker endpoint, which may all be in progress at once
Workers    == {1, 2}

\* The submission made where the worker is studied
BatchRequests == {1}

\* The calls of the bundle endpoint, which may all be in progress at once
BundleCalls == {1, 2}

---------------------------------------------------------------------------
(* Program constants *)

MAX_FILES == 20
StarterMonthly == 20
Topup10 == 10
FreeMonthly == 3

\* pollNanoBanana: maxAttempts = 60
maxAttempts == 60

NoLock == 0
NoJob  == [status |-> "none"]

\* The user whose profile, jobs and images the tables of the model hold, and
\* the users who call the bundle endpoint: that user and another one
JobOwner == "user"
Callers == {JobOwner, "other"}
NoObject == [present |-> FALSE, entries |-> {}]
NoUrl == [job |-> 0, exp |-> 0]
NoProgress == -1

\* The Stripe events that may be delivered, by id: the invoice of a starter
\* subscription, two purchases of the 10-credit pack, the deletion of the
\* subscription, and an event the handler has no case for.
StripeEvents == {"in_starter", "cs_topup_a", "cs_topup_b", "sub_deleted",
                 "evt_other"}

EventType(e) ==
  CASE e = "in_starter" -> "invoice.payment_succeeded"
    [] e \in {"cs_topup_a", "cs_topup_b"} -> "checkout.session.completed"
    [] e = "sub_deleted" -> "customer.subscription.deleted"
    [] OTHER -> "other"

\* files.length of a submission: the valid sizes, and the two invalid ones
FileCounts == (0..MaxSubmitted) \cup {MAX_FILES + 1}

BatchFileCounts == (0..MaxBatch) \cup {MAX_FILES + 1}

---------------------------------------------------------------------------
(* Pure helpers *)

LEAST(a, b) == IF a <= b THEN a ELSE b

\* get_available_credits
Available == profile.monthly_credits + profile.topup_credits

\* Mutant of InsufficientFunds: the comparison is off by one
InsufficientFundsOffByOne(v_monthly, v_topup, p_amount) ==
  (v_monthly + v_topup) < p_amount - 1

\* deduct_credits: IF (v_monthly + v_topup) < p_amount THEN RETURN FALSE
InsufficientFunds(v_monthly, v_topup, p_amount) ==
  (v_monthly + v_topup) < p_amount

\* Mutant of DeductMonthly: GREATEST in place of LEAST
DeductMonthlyGreatest(p_amount, v_monthly) ==
  IF p_amount >= v_monthly THEN p_amount ELSE v_monthly

\* deduct_credits: v_deduct_monthly := LEAST(p_amount, v_monthly)
DeductMonthly(p_amount, v_monthly) == LEAST(p_amount, v_monthly)

\* deduct_credits: v_deduct_topup := p_amount - v_deduct_monthly
DeductTopup(p_amount, v_deduct_monthly) == p_amount - v_deduct_monthly

\* Mutant of ForUpdateLock: a plain SELECT, which takes no row lock
SelectWithoutLock(p) == NoLock

\* SELECT ... FOR UPDATE: the transaction that holds the row lock afterwards
ForUpdateLock(p) == p

\* Mutant of DeductionFailed: the result of the rpc is ignored
DeductionResultIgnored(deducted) == FALSE

\* POST /api/process: if (!deducted) return 402
DeductionFailed(deducted) == ~deducted

\* Mutant of InvalidCount: an empty submission is let through
InvalidCountAboveOnly(n) == n > MAX_FILES

\* POST /api/process: !files.length || files.length > MAX_FILES
InvalidCount(n) == n = 0 \/ n > MAX_FILES

\* A row of processed_images as the submission endpoint inserts it
QueuedImage(job_id, position) ==
  [job_id |-> job_id, position |-> position, status |-> "queued",
   progress_pct |-> 0, output_path |-> "null", output_signed_url |-> "null",
   output_signed_url_exp |-> "null", error_message |-> "null"]

\* The rows of processed_images with job_id = p
ImagesOf(p) == {img \in processed_images : img.job_id = p}

\* The statuses the trigger on processed_images counts
TerminalStatuses == {"completed", "failed"}

\* A row of credit_transactions
Tx(amount, balance_after, source, reference_id) ==
  [amount |-> amount, balance_after |-> balance_after, source |-> source,
   reference_id |-> reference_id]

---------------------------------------------------------------------------
(* Initial state: the profile as handle_new_user inserts it (the credit    *)
(* columns DEFAULT 0), no other rows, no call in progress.                 *)

InitReq ==
  [pc |-> "idle", files |-> 0, v_monthly |-> 0, v_topup |-> 0,
   deducted |-> FALSE, response |-> "none", creditsCharged |-> 0]

InitHook ==
  [pc |-> "idle", event |-> "none", topup_read |-> 0, monthly_read |-> 0]

InitWorker ==
  [pc |-> "idle", jobId |-> 0, position |-> 0, outcome |-> "none",
   dlSigned |-> FALSE, v_total |-> 0, v_completed |-> 0, v_failed |-> 0,
   completedCount |-> 0, failedCount |-> 0]

InitPoll ==
  [i |-> 0, fetches |-> 0, res |-> "none", progress |-> NoProgress,
   submitted |-> 0]

InitBundle ==
  [pc |-> "idle", user |-> "none", jobId |-> 0, images |-> {}, entries |-> {},
   signedUrl |-> NoUrl, response |-> "none"]

Init ==
  /\ profile = [monthly_credits |-> 0, topup_credits |-> 0,
                credits_used_cycle |-> 0]
  /\ credit_transactions = <<>>
  /\ profileLock = NoLock
  /\ processing_jobs = [p \in Requests |-> NoJob]
  /\ processed_images = {}
  /\ uploads = {}
  /\ dispatched = {}
  /\ stripe_events = {}
  /\ req = [p \in Requests |-> InitReq]
  /\ hook = [h \in Deliveries |-> InitHook]
  /\ worker = [w \in Workers |-> InitWorker]
  /\ notifications = {}
  /\ poll = InitPoll
  /\ emails = {}
  /\ zip_bundles = {}
  /\ zips = [j \in Requests |-> NoObject]
  /\ bundle = [b \in BundleCalls |-> InitBundle]
  /\ now = 0

---------------------------------------------------------------------------
(* POST /api/process *)

Return(p, response) ==
  [req[p] EXCEPT !.pc = "done", !.response = response]

\* Steps 1-3: authenticate, parse the form, validate.  inputOk stands for
\* every file being of an accepted type and size and the vibe and ratio keys
\* being valid.
SubmitOf(p, counts) ==
  /\ req[p].pc = "idle"
  /\ \E n \in counts, inputOk \in BOOLEAN :
       IF InvalidCount(n) \/ ~inputOk
       THEN req' = [req EXCEPT ![p] = Return(p, "400")]
       ELSE req' = [req EXCEPT ![p].pc = "check", ![p].files = n]
  /\ UNCHANGED <<bundleVars, workerVars, walletVars, jobVars, hookVars>>

Submit(p) == SubmitOf(p, FileCounts)

SubmitBatch(p) == SubmitOf(p, BatchFileCounts)

\* Step 4: read the profile, reject when available < files.length
CheckCredits(p) ==
  /\ req[p].pc = "check"
  /\ IF Available < req[p].files
     THEN req' = [req EXCEPT ![p] = Return(p, "402 insufficient")]
     ELSE req' = [req EXCEPT ![p].pc = "deduct"]
  /\ UNCHANGED <<bundleVars, workerVars, walletVars, jobVars, hookVars>>

\* Step 5 after the rpc: if (!deducted) return 402, else go on to step 6
AfterDeduct(r, deducted) ==
  IF DeductionFailed(deducted)
  THEN [r EXCEPT !.pc = "done", !.response = "402 deduction failed",
                 !.deducted = deducted]
  ELSE [r EXCEPT !.pc = "create_job", !.deducted = deducted]

\* Step 5, deduct_credits up to its check: SELECT ... FOR UPDATE waits for the
\* row lock, reads both balances, and returns FALSE (ending the transaction)
\* when they do not cover p_amount.
DeductSelect(p) ==
  /\ req[p].pc = "deduct"
  /\ profileLock = NoLock
  /\ IF InsufficientFunds(profile.monthly_credits, profile.topup_credits,
                          req[p].files)
     THEN /\ req' = [req EXCEPT ![p] = AfterDeduct(req[p], FALSE)]
          /\ profileLock' = NoLock
     ELSE /\ req' = [req EXCEPT ![p].pc = "deduct_update",
                                ![p].v_monthly = profile.monthly_credits,
                                ![p].v_topup = profile.topup_credits]
          /\ profileLock' = ForUpdateLock(p)
  /\ UNCHANGED <<bundleVars, workerVars, profile, credit_transactions, jobVars, hookVars>>

\* Step 5, the rest of deduct_credits: the UPDATE of the profile (relative to
\* the row as it is, waiting for any other holder of the row lock), the
\* INSERT of the job_charge row, RETURN TRUE and commit.
DeductCommit(p) ==
  /\ req[p].pc = "deduct_update"
  /\ profileLock \in {NoLock, p}
  /\ LET p_amount         == req[p].files
         v_deduct_monthly == DeductMonthly(p_amount, req[p].v_monthly)
         v_deduct_topup   == DeductTopup(p_amount, v_deduct_monthly)
         v_balance_after  == (req[p].v_monthly - v_deduct_monthly)
                               + (req[p].v_topup - v_deduct_topup)
     IN  /\ profile' =
               [monthly_credits |-> profile.monthly_credits - v_deduct_monthly,
                topup_credits |-> profile.topup_credits - v_deduct_topup,
                credits_used_cycle |-> profile.credits_used_cycle + p_amount]
         /\ credit_transactions' =
               Append(credit_transactions,
                      Tx(-p_amount, v_balance_after, "job_charge", "null"))
         /\ req' = [req EXCEPT ![p] =
                      AfterDeduct([req[p] EXCEPT !.v_monthly = 0,
                                                 !.v_topup = 0], TRUE)]
  /\ profileLock' = NoLock
  /\ UNCHANGED <<bundleVars, workerVars, jobVars, hookVars>>

\* Step 6: insert the processing_jobs row; on an insert error return 500
CreateJob(p) ==
  /\ req[p].pc = "create_job"
  /\ \E jobErr \in BOOLEAN :
       IF jobErr
       THEN /\ req' = [req EXCEPT ![p] = Return(p, "500 job")]
            /\ UNCHANGED processing_jobs
       ELSE /\ processing_jobs' =
                 [processing_jobs EXCEPT ![p] =
                    [status |-> "queued", total_images |-> req[p].files,
                     credits_charged |-> req[p].files,
                     completed_count |-> 0, failed_count |-> 0,
                     completed_at |-> "null"]]
            /\ req' = [req EXCEPT ![p].pc = "upload"]
  /\ UNCHANGED <<bundleVars, workerVars, walletVars, processed_images, uploads, dispatched,
                 hookVars>>

\* Step 7 with every upload failing: mark the job failed and return 500
AllUploadsFailed(p) ==
  /\ req[p].pc = "upload"
  /\ processing_jobs' = [processing_jobs EXCEPT ![p].status = "failed"]
  /\ req' = [req EXCEPT ![p] = Return(p, "500 uploads")]
  /\ UNCHANGED <<bundleVars, workerVars, walletVars, processed_images, uploads, dispatched,
                 hookVars>>

\* An endpoint that dispatches without updating the total
AfterInsertSkipsTotal(failedUploads) == "dispatch"

\* What follows the insert of the rows: the update of total_images when an
\* upload failed, and then the dispatch
AfterInsert(failedUploads) ==
  IF failedUploads # {} THEN "update_total" ELSE "dispatch"

\* Steps 7-8 with the uploads at positions failedUploads failing, not all of
\* them: store the other originals and insert one processed_images row per
\* stored original.  The result of the insert is not looked at: with imgErr
\* no row is inserted and the call goes on.
InsertImages(p) ==
  /\ req[p].pc = "upload"
  /\ \E failedUploads \in SUBSET (1..req[p].files), imgErr \in BOOLEAN :
       /\ failedUploads # 1..req[p].files
       /\ LET successUploads == (1..req[p].files) \ failedUploads
          IN  /\ uploads' = uploads \cup
                   {[job_id |-> p, position |-> i] : i \in successUploads}
              /\ processed_images' =
                   IF imgErr THEN processed_images
                   ELSE processed_images \cup
                          {QueuedImage(p, i) : i \in successUploads}
              /\ req' = [req EXCEPT
                   ![p].pc = AfterInsert(failedUploads),
                   ![p].creditsCharged = Cardinality(successUploads)]
  /\ UNCHANGED <<bundleVars, workerVars, walletVars, processing_jobs, dispatched, hookVars>>

\* Step 8, when some upload failed: total_images := successUploads.length
UpdateTotal(p) ==
  /\ req[p].pc = "update_total"
  /\ processing_jobs' =
       [processing_jobs EXCEPT ![p].total_images = req[p].creditsCharged]
  /\ req' = [req EXCEPT ![p].pc = "dispatch"]
  /\ UNCHANGED <<bundleVars, workerVars, walletVars, processed_images, uploads, dispatched,
                 hookVars>>

\* An endpoint that awaits the dispatch and reports its failure
DispatchAwaited(delivered) == IF delivered THEN "200" ELSE "500 dispatch"

\* The response after the dispatch: the fetch is not awaited and its
\* rejection is only logged
DispatchResponse(delivered) == "200"

\* Step 9: post the job id to /api/worker without awaiting it, and return
\* {jobId, creditsCharged: successUploads.length}; the request reaches the
\* worker or it does not
Dispatch(p) ==
  /\ req[p].pc = "dispatch"
  /\ \E delivered \in BOOLEAN :
       /\ dispatched' = IF delivered THEN dispatched \cup {p} ELSE dispatched
       /\ req' = [req EXCEPT ![p] = Return(p, DispatchResponse(delivered))]
  /\ UNCHANGED <<bundleVars, workerVars, walletVars, processing_jobs, processed_images,
                 uploads, hookVars>>

---------------------------------------------------------------------------
(* POST /api/webhooks/stripe.  A delivery whose signature does not verify  *)
(* returns 400 before any read and is left out.  "other" stands for every  *)
(* event that reaches a break without an effect: an unhandled type, an     *)
(* invoice with another billing reason or an unknown price, a checkout     *)
(* that is no payment or names no credit pack, a missing user id.  The     *)
(* rows the handler inserts into notifications are not part of the state.  *)

HookAt(h, pc) == [hook EXCEPT ![h].pc = pc]

\* The idempotency check and the switch on event.type
Deliver(h) ==
  /\ hook[h].pc = "idle"
  /\ \E e \in StripeEvents :
       hook' = [hook EXCEPT ![h] =
         IF e \in stripe_events
         THEN [InitHook EXCEPT !.pc = "done"]
         ELSE [InitHook EXCEPT
                 !.event = e,
                 !.pc = CASE EventType(e) = "invoice.payment_succeeded"
                               -> "grant_update"
                          [] EventType(e) = "checkout.session.completed"
                               -> "topup_read"
                          [] EventType(e) = "customer.subscription.deleted"
                               -> "cancel_update"
                          [] OTHER -> "record"]]
  /\ UNCHANGED <<bundleVars, workerVars, walletVars, jobVars, stripe_events, req>>

\* invoice.payment_succeeded: monthly_credits := config.monthly,
\* credits_used_cycle := 0
GrantUpdate(h) ==
  /\ hook[h].pc = "grant_update"
  /\ profileLock = NoLock
  /\ profile' = [profile EXCEPT !.monthly_credits = StarterMonthly,
                                !.credits_used_cycle = 0]
  /\ hook' = HookAt(h, "grant_insert")
  /\ UNCHANGED <<bundleVars, workerVars, credit_transactions, profileLock, jobVars, stripe_events,
                 req>>

\* invoice.payment_succeeded: the monthly_grant row
GrantInsert(h) ==
  /\ hook[h].pc = "grant_insert"
  /\ credit_transactions' =
       Append(credit_transactions,
              Tx(StarterMonthly, StarterMonthly, "monthly_grant",
                 hook[h].event))
  /\ hook' = HookAt(h, "record")
  /\ UNCHANGED <<bundleVars, workerVars, profile, profileLock, jobVars, stripe_events, req>>

\* checkout.session.completed: read topup_credits and monthly_credits
TopupRead(h) ==
  /\ hook[h].pc = "topup_read"
  /\ hook' = [hook EXCEPT ![h].pc = "topup_update",
                          ![h].topup_read = profile.topup_credits,
                          ![h].monthly_read = profile.monthly_credits]
  /\ UNCHANGED <<bundleVars, workerVars, walletVars, jobVars, stripe_events, req>>

\* newTopup = (profile?.topup_credits ?? 0) + credits
NewTopup(h) == hook[h].topup_read + Topup10

\* newBalance = (profile?.monthly_credits ?? 0) + newTopup
NewBalance(h) == hook[h].monthly_read + NewTopup(h)

\* checkout.session.completed: topup_credits := newTopup
TopupUpdate(h) ==
  /\ hook[h].pc = "topup_update"
  /\ profileLock = NoLock
  /\ profile' = [profile EXCEPT !.topup_credits = NewTopup(h)]
  /\ hook' = HookAt(h, "topup_insert")
  /\ UNCHANGED <<bundleVars, workerVars, credit_transactions, profileLock, jobVars, stripe_events,
                 req>>

\* checkout.session.completed: the topup_purchase row
TopupInsert(h) ==
  /\ hook[h].pc = "topup_insert"
  /\ credit_transactions' =
       Append(credit_transactions,
              Tx(Topup10, NewBalance(h), "topup_purchase", hook[h].event))
  /\ hook' = HookAt(h, "record")
  /\ UNCHANGED <<bundleVars, workerVars, profile, profileLock, jobVars, stripe_events, req>>

\* customer.subscription.deleted: monthly_credits := 3, credits_used_cycle := 0
CancelUpdate(h) ==
  /\ hook[h].pc = "cancel_update"
  /\ profileLock = NoLock
  /\ profile' = [profile EXCEPT !.monthly_credits = FreeMonthly,
                                !.credits_used_cycle = 0]
  /\ hook' = HookAt(h, "record")
  /\ UNCHANGED <<bundleVars, workerVars, credit_transactions, profileLock, jobVars, stripe_events,
                 req>>

\* Record the event id for idempotency
RecordEvent(h) ==
  /\ hook[h].pc = "record"
  /\ stripe_events' = stripe_events \cup {hook[h].event}
  /\ hook' = [hook EXCEPT ![h] = [InitHook EXCEPT !.pc = "done"]]
  /\ UNCHANGED <<bundleVars, workerVars, walletVars, jobVars, req>>

---------------------------------------------------------------------------
(* POST /api/worker.  A call is made with the id of a dispatched job; the  *)
(* endpoint does not look at the job's status and nothing keeps a second   *)
(* call for the same job from running, after or alongside the first.  The  *)
(* images of a job are all inserted before it is dispatched and never      *)
(* deleted, so the list a call loads is the job's rows in position order   *)
(* and the call keeps only the position it has reached.                    *)
(*                                                                         *)
(* An UPDATE of a processed_images row and the trigger it fires are one    *)
(* transaction.  It is split after the trigger's SELECT: the SELECT reads  *)
(* the committed job row without locking it, the trigger's UPDATE is       *)
(* relative to the job row as it is when it runs, and the image row is     *)
(* locked from the UPDATE statement to the commit.                         *)

\* The row of job j at position pos
ImageAt(j, pos) == CHOOSE img \in ImagesOf(j) : img.position = pos

\* The first position after pos among the images of job j, 0 when none is left
NextPosition(j, pos) ==
  LET later == {img.position : img \in {i \in ImagesOf(j) : i.position > pos}}
  IN  IF later = {} THEN 0
      ELSE CHOOSE m \in later : \A n \in later : m <= n

\* Another call's open transaction holds the lock on the row of j at pos
ImageLocked(w, j, pos) ==
  \E v \in Workers \ {w} :
    /\ worker[v].pc = "img_commit"
    /\ worker[v].jobId = j
    /\ worker[v].position = pos

\* processed_images after the update of the row of j at pos
UpdateImage(j, pos, row) ==
  (processed_images \ {ImageAt(j, pos)}) \cup {row}

\* A catch block that marks the image failed without the message
FinalRowWithoutMessage(img, outcome, dlSigned) ==
  IF outcome = "completed"
  THEN [img EXCEPT !.status = "completed", !.progress_pct = 100,
                   !.output_path = "outputPath",
                   !.output_signed_url = IF dlSigned THEN "signedUrl"
                                                     ELSE "null",
                   !.output_signed_url_exp = "in 24 h"]
  ELSE [img EXCEPT !.status = "failed"]

\* What processImage writes at its end: the last update of the try block,
\* with dlSigned?.signedUrl ?? null as the signed URL, or the update of the
\* catch block with the message of the error
FinalRow(img, outcome, dlSigned) ==
  IF outcome = "completed"
  THEN [img EXCEPT !.status = "completed", !.progress_pct = 100,
                   !.output_path = "outputPath",
                   !.output_signed_url = IF dlSigned THEN "signedUrl"
                                                     ELSE "null",
                   !.output_signed_url_exp = "in 24 h"]
  ELSE [img EXCEPT !.status = "failed", !.error_message = outcome]

\* trg_sync_job_on_image_complete: the WHEN condition
TriggerFires(old, new) ==
  new.status \in TerminalStatuses /\ old.status \notin TerminalStatuses

\* Mutant of sync_job_completion: the UPDATE for a failed image only counts
sync_FailedOnlyCounts(job, new, v_total, v_completed, v_failed) ==
  IF new.status = "completed"
  THEN LET done == (job.completed_count + 1 + v_failed) = v_total
       IN  [job EXCEPT
              !.completed_count = job.completed_count + 1,
              !.status = IF done THEN "completed" ELSE job.status,
              !.completed_at = IF done THEN "now" ELSE job.completed_at]
  ELSE IF new.status = "failed"
  THEN [job EXCEPT !.failed_count = job.failed_count + 1]
  ELSE job

\* sync_job_completion: the two UPDATEs of the job row, with the values
\* v_total, v_completed, v_failed its SELECT stored
sync_job_completion(job, new, v_total, v_completed, v_failed) ==
  IF new.status = "completed"
  THEN LET done == (job.completed_count + 1 + v_failed) = v_total
       IN  [job EXCEPT
              !.completed_count = job.completed_count + 1,
              !.status = IF done THEN "completed" ELSE job.status,
              !.completed_at = IF done THEN "now" ELSE job.completed_at]
  ELSE IF new.status = "failed"
  THEN LET done == (v_completed + job.failed_count + 1) = v_total
       IN  [job EXCEPT
              !.failed_count = job.failed_count + 1,
              !.status = IF done THEN "completed" ELSE job.status,
              !.completed_at = IF done THEN "now" ELSE job.completed_at]
  ELSE job

\* A loop that leaves at the first image that failed
AfterImageAbortOnFailure(w) ==
  LET next == IF worker[w].outcome = "completed"
              THEN NextPosition(worker[w].jobId, worker[w].position)
              ELSE 0
  IN  [worker[w] EXCEPT
         !.pc = IF next = 0 THEN "notify_read" ELSE "img_start",
         !.position = next, !.outcome = "none", !.dlSigned = FALSE,
         !.v_total = 0, !.v_completed = 0, !.v_failed = 0]

\* The end of processImage in the loop of POST: on to the next image, or to
\* the notification when none is left
AfterImage(w) ==
  LET next == NextPosition(worker[w].jobId, worker[w].position)
  IN  [worker[w] EXCEPT
         !.pc = IF next = 0 THEN "notify_read" ELSE "img_start",
         !.position = next, !.outcome = "none", !.dlSigned = FALSE,
         !.v_total = 0, !.v_completed = 0, !.v_failed = 0]

\* Load job: the call was made with the id of a dispatched job
WorkerStart(w) ==
  /\ worker[w].pc = "idle"
  /\ \E j \in dispatched :
       worker' = [worker EXCEPT ![w].pc = "mark", ![w].jobId = j]
  /\ UNCHANGED <<bundleVars, emails, walletVars, jobVars, hookVars, req, notifications, poll>>

\* Mark processing
MarkProcessing(w) ==
  /\ worker[w].pc = "mark"
  /\ processing_jobs' =
       [processing_jobs EXCEPT ![worker[w].jobId].status = "processing"]
  /\ worker' = [worker EXCEPT ![w].pc = "load"]
  /\ UNCHANGED <<bundleVars, emails, walletVars, processed_images, uploads, dispatched, hookVars,
                 req, notifications, poll>>

\* Load images; without any, mark the job failed and return 400
LoadImages(w) ==
  /\ worker[w].pc = "load"
  /\ LET j == worker[w].jobId
     IN  IF ImagesOf(j) = {}
         THEN /\ processing_jobs' =
                   [processing_jobs EXCEPT ![j].status = "failed"]
              /\ worker' = [worker EXCEPT ![w].pc = "done"]
         ELSE /\ worker' = [worker EXCEPT ![w].pc = "img_start",
                                          ![w].position = NextPosition(j, 0)]
              /\ UNCHANGED processing_jobs
  /\ UNCHANGED <<bundleVars, emails, walletVars, processed_images, uploads, dispatched, hookVars,
                 req, notifications, poll>>

\* processImage: mark the image as processing
ImgProcessing(w) ==
  /\ worker[w].pc = "img_start"
  /\ LET j == worker[w].jobId
         pos == worker[w].position
     IN  /\ ~ImageLocked(w, j, pos)
         /\ processed_images' =
              UpdateImage(j, pos, [ImageAt(j, pos) EXCEPT
                                     !.status = "processing",
                                     !.progress_pct = 5])
  /\ worker' = [worker EXCEPT ![w].pc = "img_run"]
  /\ UNCHANGED <<bundleVars, emails, walletVars, processing_jobs, uploads, dispatched, hookVars,
                 req, notifications, poll>>

\* processImage from the signing of the original to the signing of the
\* output, by its result: every step succeeded, with or without a signed
\* URL for the output, or one of them threw
RunImage(w) ==
  /\ worker[w].pc = "img_run"
  /\ \E outcome \in {"completed", "Nano Banana processing failed"},
        dlSigned \in BOOLEAN :
       /\ outcome # "completed" => ~dlSigned
       /\ worker' = [worker EXCEPT ![w].pc = "img_finish",
                                   ![w].outcome = outcome,
                                   ![w].dlSigned = dlSigned]
  /\ UNCHANGED <<bundleVars, emails, walletVars, jobVars, hookVars, req, notifications, poll>>

\* processImage: the UPDATE that sets the image completed or failed.  When
\* the trigger's WHEN condition holds for the row, the trigger's SELECT
\* follows and the transaction stays open; otherwise it commits at once.
ImgTerminalBegin(w) ==
  /\ worker[w].pc = "img_finish"
  /\ LET j   == worker[w].jobId
         pos == worker[w].position
         old == ImageAt(j, pos)
         new == FinalRow(old, worker[w].outcome, worker[w].dlSigned)
     IN  /\ ~ImageLocked(w, j, pos)
         /\ IF TriggerFires(old, new)
            THEN /\ worker' =
                      [worker EXCEPT
                         ![w].pc = "img_commit",
                         ![w].v_total = processing_jobs[j].total_images,
                         ![w].v_completed = processing_jobs[j].completed_count,
                         ![w].v_failed = processing_jobs[j].failed_count]
                 /\ UNCHANGED processed_images
            ELSE /\ processed_images' = UpdateImage(j, pos, new)
                 /\ worker' = [worker EXCEPT ![w] = AfterImage(w)]
  /\ UNCHANGED <<bundleVars, emails, walletVars, processing_jobs, uploads, dispatched, hookVars,
                 req, notifications, poll>>

\* The rest of that transaction: the trigger's UPDATE of the job row and the
\* commit, which makes the image's new status visible
ImgTerminalCommit(w) ==
  /\ worker[w].pc = "img_commit"
  /\ LET j   == worker[w].jobId
         pos == worker[w].position
         new == FinalRow(ImageAt(j, pos), worker[w].outcome,
                         worker[w].dlSigned)
     IN  /\ processed_images' = UpdateImage(j, pos, new)
         /\ processing_jobs' =
              [processing_jobs EXCEPT ![j] =
                 sync_job_completion(processing_jobs[j], new,
                                     worker[w].v_total, worker[w].v_completed,
                                     worker[w].v_failed)]
  /\ worker' = [worker EXCEPT ![w] = AfterImage(w)]
  /\ UNCHANGED <<bundleVars, emails, walletVars, uploads, dispatched, hookVars, req,
                 notifications, poll>>

\* What a poll of the provider can come back with: a response that is not
\* ok, a body that does not parse as JSON, a status that is neither
\* completed nor failed, completed without an output_url, completed with
\* one, and failed
PollResponses ==
  {"not_ok", "unparseable", "pending", "completed_no_url", "completed",
   "failed"}

\* The message pollNanoBanana throws after its last attempt
TimedOut == "Nano Banana processing timed out"

\* Mutant of PollExhausted: one attempt more than the ceiling
PollExhaustedOneLate(i) == i > maxAttempts

\* pollNanoBanana: the loop condition i < maxAttempts is false
PollExhausted(i) == i >= maxAttempts

\* The progress values the provider reports in a poll response, in percent
ProviderProgress == {0, 20, 50, 90, 100}

\* Math.round(p * 0.35) for a reported progress p in 0..100: the product is
\* taken in binary floating point, where 90 * 0.35 is just below 31.5
RoundReported(p) == IF p = 90 THEN 31 ELSE (p * 35 + 50) \div 100

\* Math.round(i / maxAttempts * 100 * 0.35) for an attempt i in 0..59; in
\* floating point the product for i = 54 is just below 31.5
RoundAttempt(i) == IF i = 54 THEN 31 ELSE (14 * i + 12) \div 24

\* A poll progress written without the upper limit
PollProgressUnlimited(i, progress) ==
  40 + (IF progress = NoProgress THEN RoundAttempt(i)
                                 ELSE RoundReported(progress))

\* The progress_pct written after a poll: data.progress, or the share of
\* the attempts made when the response has none, mapped into 40..74
PollProgress(i, progress) ==
  LET progressPct == 40 + (IF progress = NoProgress
                           THEN RoundAttempt(i)
                           ELSE RoundReported(progress))
  IN  IF progressPct > 74 THEN 74 ELSE progressPct

\* The update of progress_pct of the image that call w is processing
SetProgress(w, pct) ==
  LET j == worker[w].jobId
      pos == worker[w].position
  IN  /\ ~ImageLocked(w, j, pos)
      /\ processed_images' =
           UpdateImage(j, pos, [ImageAt(j, pos) EXCEPT !.progress_pct = pct])

\* The errors the provider names in a failed response; data.error may be
\* missing
ProviderErrors == {"null", "Content policy violation"}

\* A loop that goes on polling after a failed response
ContinuesAfterFailed(res) ==
  res \in {"not_ok", "pending", "completed_no_url", "failed"}

\* The responses after which the loop of pollNanoBanana goes on
Continues(res) == res \in {"not_ok", "pending", "completed_no_url"}

\* processImage: sign the original; without a signed URL throw, otherwise
\* write progress 15
SignOriginal(w) ==
  /\ worker[w].pc = "img_run"
  /\ \E ok \in BOOLEAN :
       IF ok
       THEN /\ SetProgress(w, 15)
            /\ worker' = [worker EXCEPT ![w].pc = "submit"]
       ELSE /\ worker' = [worker EXCEPT
                            ![w].pc = "img_finish",
                            ![w].outcome = "Could not sign original URL"]
            /\ UNCHANGED processed_images
  /\ UNCHANGED <<bundleVars, emails, walletVars, processing_jobs, uploads,
                 dispatched, hookVars, req, notifications, poll>>

\* processImage: submit the image to the provider; a response that is not
\* ok throws, otherwise write progress 40 and start polling
SubmitToProvider(w) ==
  /\ worker[w].pc = "submit"
  /\ poll' = [InitPoll EXCEPT !.submitted = poll.submitted + 1]
  /\ \E ok \in BOOLEAN :
       IF ok
       THEN /\ SetProgress(w, 40)
            /\ worker' = [worker EXCEPT ![w].pc = "poll"]
       ELSE /\ worker' = [worker EXCEPT ![w].pc = "img_finish",
                                        ![w].outcome = "Nano Banana API error"]
            /\ UNCHANGED processed_images
  /\ UNCHANGED <<bundleVars, emails, walletVars, processing_jobs, uploads,
                 dispatched, hookVars, req, notifications>>

\* pollNanoBanana: one pass of the loop body.  A response that is not ok
\* goes on to the next attempt; a body that does not parse makes res.json()
\* throw; for a parsed body the progress is written, and then completed
\* with an output_url returns it, failed throws the provider's error, and
\* anything else goes on to the next attempt.
PollAttempt(w) ==
  /\ worker[w].pc = "poll"
  /\ ~PollExhausted(poll.i)
  /\ \E res \in PollResponses, progress \in ProviderProgress \cup {NoProgress},
        error \in ProviderErrors :
       LET parsed == res \notin {"not_ok", "unparseable"}
       IN  /\ ~parsed => progress = NoProgress
           /\ res # "failed" => error = "null"
           /\ poll' = [poll EXCEPT
                         !.i = IF Continues(res) THEN poll.i + 1 ELSE poll.i,
                         !.fetches = poll.fetches + 1,
                         !.res = res,
                         !.progress = progress]
           /\ IF parsed
              THEN SetProgress(w, PollProgress(poll.i, progress))
              ELSE UNCHANGED processed_images
           /\ worker' =
                IF Continues(res) THEN worker
                ELSE IF res = "completed"
                THEN [worker EXCEPT ![w].pc = "fetch_output"]
                ELSE IF res = "failed"
                THEN [worker EXCEPT
                        ![w].pc = "img_finish",
                        ![w].outcome =
                           IF error = "null"
                           THEN "Nano Banana processing failed"
                           ELSE error]
                ELSE [worker EXCEPT
                        ![w].pc = "img_finish",
                        ![w].outcome = "Unexpected token in JSON"]
  /\ UNCHANGED <<bundleVars, emails, walletVars, processing_jobs, uploads,
                 dispatched, hookVars, req, notifications>>

\* pollNanoBanana: the loop has ended, throw the timeout error
PollTimeout(w) ==
  /\ worker[w].pc = "poll"
  /\ PollExhausted(poll.i)
  /\ worker' = [worker EXCEPT ![w].pc = "img_finish",
                              ![w].outcome = TimedOut]
  /\ UNCHANGED <<bundleVars, emails, walletVars, jobVars, hookVars, req, notifications, poll>>

\* processImage after polling: write progress 75, fetch the output, store
\* it and sign it; a failure of the fetch or of the storage upload throws,
\* a signing that gives no URL does not
FetchOutput(w) ==
  /\ worker[w].pc = "fetch_output"
  /\ SetProgress(w, 75)
  /\ \E outcome \in {"completed", "Failed to fetch Nano Banana output",
                     "Storage upload failed"}, dlSigned \in BOOLEAN :
       /\ outcome # "completed" => ~dlSigned
       /\ worker' = [worker EXCEPT ![w].pc = "img_finish",
                                   ![w].outcome = outcome,
                                   ![w].dlSigned = dlSigned]
  /\ UNCHANGED <<bundleVars, emails, walletVars, processing_jobs, uploads,
                 dispatched, hookVars, req, notifications, poll>>

\* Read completed_count and failed_count of the job for the notification
NotifyRead(w) ==
  /\ worker[w].pc = "notify_read"
  /\ worker' =
       [worker EXCEPT
          ![w].pc = "notify_insert",
          ![w].completedCount =
             processing_jobs[worker[w].jobId].completed_count,
          ![w].failedCount = processing_jobs[worker[w].jobId].failed_count]
  /\ UNCHANGED <<bundleVars, emails, walletVars, jobVars, hookVars, req, notifications, poll>>

\* Insert the notification, call sendCompletionEmail when completedCount > 0,
\* and return
NotifyInsert(w) ==
  /\ worker[w].pc = "notify_insert"
  /\ notifications' = notifications \cup
       {[id |-> w, job_id |-> worker[w].jobId,
         type |-> IF worker[w].completedCount > 0 THEN "job_completed"
                                                  ELSE "job_failed",
         completed |-> worker[w].completedCount,
         failed |-> worker[w].failedCount]}
  /\ emails' = IF worker[w].completedCount > 0 THEN emails \cup {w}
                                                 ELSE emails
  /\ worker' = [worker EXCEPT ![w].pc = "done", ![w].position = 0,
                              ![w].completedCount = 0, ![w].failedCount = 0]
  /\ UNCHANGED <<bundleVars, walletVars, jobVars, hookVars, req, poll>>

---------------------------------------------------------------------------

(* The bundle endpoint, POST /api/jobs/[id]/zip.  Every database and       *)
(* storage call of the handler is a step of its own.  Times are in         *)
(* minutes.                                                                *)

\* The lifetime of the signed URL of a bundle: 3600 seconds
SIGNED_URL_MINUTES == 60

\* A stored URL is reused while it expires more than 60_000 ms from now
MARGIN_MINUTES == 1

\* The instants at which the clock is looked at
Times == {0, 1, 59, 60}

\* zip_bundles has a primary key on id and neither a unique constraint nor
\* a unique index on job_id
ZipBundlesJobIdUnique == FALSE

\* The rows of zip_bundles with job_id = j
BundlesOf(j) == {r \in zip_bundles : r.job_id = j}

\* .single(): the row when the query has exactly one, otherwise none
Single(rows) == IF Cardinality(rows) = 1 THEN rows ELSE {}

\* upsert(row, { onConflict: 'job_id' }), INSERT ... ON CONFLICT (job_id) DO
\* UPDATE: with a unique index on job_id the row replaces the one of its
\* job; without one the statement is rejected (there is no unique or
\* exclusion constraint matching the ON CONFLICT specification) and the
\* table stays as it is.  The handler does not look at the result.
Upsert(rows, row) ==
  IF ZipBundlesJobIdUnique
  THEN {r \in rows : r.job_id # row.job_id} \cup {row}
  ELSE rows

\* A handler that writes the bundle row before the archive is stored
AfterFailureRecorded(rows, row) == rows \cup {row}

\* zip_bundles after a request that failed at the storage write or at the
\* signing: the handler returns before it reaches the upsert
AfterFailure(rows, row) == rows

\* The row the handler writes for the bundle of call b
BundleRow(b, url) ==
  [job_id |-> bundle[b].jobId, signed_url |-> url, signed_url_exp |-> url.exp,
   image_count |-> Cardinality(bundle[b].images)]

\* The call returns with a response; its locals other than the URL it
\* returned are gone
BundleReturn(b, response, url) ==
  [InitBundle EXCEPT !.pc = "done", !.user = bundle[b].user,
                     !.jobId = bundle[b].jobId,
                     !.response = response, !.signedUrl = url]

\* A select of processing_jobs by id alone
SelectJobById(jobId, userId) == processing_jobs[jobId]

\* The select of processing_jobs by id and user_id: the rows of the model
\* all belong to JobOwner, so another user finds none
SelectJob(jobId, userId) ==
  IF userId = JobOwner THEN processing_jobs[jobId] ELSE NoJob

\* The request arrives from an authenticated user, for a job id
BundleStart(b) ==
  /\ bundle[b].pc = "idle"
  /\ \E u \in Callers, j \in Requests :
       bundle' = [bundle EXCEPT ![b].pc = "verify", ![b].user = u,
                                ![b].jobId = j]
  /\ UNCHANGED <<workerVars, walletVars, jobVars, hookVars, req, zip_bundles,
                 zips, now>>

\* Verify job ownership, and that the job is completed
VerifyJob(b) ==
  /\ bundle[b].pc = "verify"
  /\ LET job == SelectJob(bundle[b].jobId, bundle[b].user)
     IN  bundle' =
           [bundle EXCEPT
              ![b] = IF job = NoJob
                     THEN BundleReturn(b, "404 Job not found", NoUrl)
                     ELSE IF job.status # "completed"
                     THEN BundleReturn(b, "409 Job not yet completed", NoUrl)
                     ELSE [bundle[b] EXCEPT !.pc = "cache"]]
  /\ UNCHANGED <<workerVars, walletVars, jobVars, hookVars, req, zip_bundles,
                 zips, now>>

\* Check for a cached bundle: return its URL when it is valid for more than
\* the margin
CheckCache(b) ==
  /\ bundle[b].pc = "cache"
  /\ LET existing == Single(BundlesOf(bundle[b].jobId))
     IN  bundle' =
           [bundle EXCEPT
              ![b] = IF \E r \in existing :
                          r.signed_url_exp > now + MARGIN_MINUTES
                     THEN BundleReturn(b, "200",
                            (CHOOSE r \in existing : TRUE).signed_url)
                     ELSE [bundle[b] EXCEPT !.pc = "load"]]
  /\ UNCHANGED <<workerVars, walletVars, jobVars, hookVars, req, zip_bundles,
                 zips, now>>

\* Load the completed images; without any return 404, otherwise build the
\* archive: an image whose output cannot be signed or downloaded is left out
LoadAndBuild(b) ==
  /\ bundle[b].pc = "load"
  /\ LET images == {img.position : img \in
                      {i \in ImagesOf(bundle[b].jobId) :
                         i.status = "completed"}}
     IN  IF images = {}
         THEN bundle' =
                [bundle EXCEPT
                   ![b] = BundleReturn(b, "404 No completed images found",
                                       NoUrl)]
         ELSE \E entries \in SUBSET images :
                bundle' = [bundle EXCEPT ![b].pc = "remove",
                                         ![b].images = images,
                                         ![b].entries = entries]
  /\ UNCHANGED <<workerVars, walletVars, jobVars, hookVars, req, zip_bundles,
                 zips, now>>

\* Remove the stale object at the path of the bundle
RemoveStale(b) ==
  /\ bundle[b].pc = "remove"
  /\ zips' = [zips EXCEPT ![bundle[b].jobId] = NoObject]
  /\ bundle' = [bundle EXCEPT ![b].pc = "upload"]
  /\ UNCHANGED <<workerVars, walletVars, jobVars, hookVars, req, zip_bundles,
                 now>>

\* Upload the archive, replacing an object at the path; on an error return
\* 500
Upload(b) ==
  /\ bundle[b].pc = "upload"
  /\ \E ok \in BOOLEAN :
       IF ok
       THEN /\ zips' = [zips EXCEPT ![bundle[b].jobId] =
                          [present |-> TRUE, entries |-> bundle[b].entries]]
            /\ bundle' = [bundle EXCEPT ![b].pc = "sign"]
            /\ UNCHANGED zip_bundles
       ELSE /\ bundle' =
                 [bundle EXCEPT
                    ![b] = BundleReturn(b, "500 Failed to store ZIP", NoUrl)]
            /\ zip_bundles' = AfterFailure(zip_bundles, BundleRow(b, NoUrl))
            /\ UNCHANGED zips
  /\ UNCHANGED <<workerVars, walletVars, jobVars, hookVars, req, now>>

\* Create the signed download URL; without one return 500
SignBundle(b) ==
  /\ bundle[b].pc = "sign"
  /\ \E ok \in BOOLEAN :
       IF ok
       THEN /\ bundle' =
                 [bundle EXCEPT
                    ![b].pc = "record",
                    ![b].signedUrl =
                       [job |-> bundle[b].jobId,
                        exp |-> now + SIGNED_URL_MINUTES]]
            /\ UNCHANGED zip_bundles
       ELSE /\ bundle' =
                 [bundle EXCEPT
                    ![b] = BundleReturn(b, "500 Failed to create signed URL",
                                        NoUrl)]
            /\ zip_bundles' = AfterFailure(zip_bundles, BundleRow(b, NoUrl))
  /\ UNCHANGED <<workerVars, walletVars, jobVars, hookVars, req, zips, now>>

\* Persist the bundle record and return the signed URL
PersistBundle(b) ==
  /\ bundle[b].pc = "record"
  /\ zip_bundles' = Upsert(zip_bundles, BundleRow(b, bundle[b].signedUrl))
  /\ bundle' = [bundle EXCEPT
                  ![b] = BundleReturn(b, "200", bundle[b].signedUrl)]
  /\ UNCHANGED <<workerVars, walletVars, jobVars, hookVars, req, zips, now>>

\* Time passes
Tick ==
  /\ \E t \in Times : t > now /\ now' = t
  /\ UNCHANGED <<workerVars, walletVars, jobVars, hookVars, req, zip_bundles,
                 zips, bundle>>

---------------------------------------------------------------------------

(* Scheduling.  The calls of the submission endpoint are interchangeable,   *)
(* so they start in the order of their numbers; they run concurrently with *)
(* each other and with the webhook.  Stripe's deliveries are taken one     *)
(* after another: a delivery starts when the one before it has returned.   *)

RequestsBefore(p) == \A q \in Requests : q < p => req[q].pc # "idle"

DeliveriesBefore(h) == \A g \in Deliveries : g < h => hook[g].pc = "done"

Next ==
  \/ \E p \in Requests : RequestsBefore(p) /\ Submit(p)
  \/ \E p \in Requests : CheckCredits(p)
  \/ \E p \in Requests : DeductSelect(p)
  \/ \E p \in Requests : DeductCommit(p)
  \/ \E p \in Requests : CreateJob(p)
  \/ \E p \in Requests : AllUploadsFailed(p)
  \/ \E p \in Requests : InsertImages(p)
  \/ \E p \in Requests : UpdateTotal(p)
  \/ \E p \in Requests : Dispatch(p)
  \/ \E h \in Deliveries : DeliveriesBefore(h) /\ Deliver(h)
  \/ \E h \in Deliveries : GrantUpdate(h)
  \/ \E h \in Deliveries : GrantInsert(h)
  \/ \E h \in Deliveries : TopupRead(h)
  \/ \E h \in Deliveries : TopupUpdate(h)
  \/ \E h \in Deliveries : TopupInsert(h)
  \/ \E h \in Deliveries : CancelUpdate(h)
  \/ \E h \in Deliveries : RecordEvent(h)

Spec == Init /\ [][Next]_vars

(* The worker.  The wallet starts as the webhook leaves it after the       *)
(* invoice of a starter subscription; one submission is made, and the     *)
(* calls of the worker run concurrently with it and with each other.       *)

InitWorkerSpec ==
  /\ profile = [monthly_credits |-> StarterMonthly, topup_credits |-> 0,
                credits_used_cycle |-> 0]
  /\ credit_transactions =
       <<Tx(StarterMonthly, StarterMonthly, "monthly_grant", "in_starter")>>
  /\ profileLock = NoLock
  /\ processing_jobs = [p \in Requests |-> NoJob]
  /\ processed_images = {}
  /\ uploads = {}
  /\ dispatched = {}
  /\ stripe_events = {"in_starter"}
  /\ req = [p \in Requests |-> InitReq]
  /\ hook = [h \in Deliveries |-> [InitHook EXCEPT !.pc = "done"]]
  /\ worker = [w \in Workers |-> InitWorker]
  /\ notifications = {}
  /\ poll = InitPoll
  /\ emails = {}
  /\ zip_bundles = {}
  /\ zips = [j \in Requests |-> NoObject]
  /\ bundle = [b \in BundleCalls |-> InitBundle]
  /\ now = 0

WorkersBefore(w) == \A v \in Workers : v < w => worker[v].pc # "idle"

NextWorkerSpec ==
  \/ \E p \in BatchRequests : SubmitBatch(p)
  \/ \E p \in BatchRequests : CheckCredits(p)
  \/ \E p \in BatchRequests : DeductSelect(p)
  \/ \E p \in BatchRequests : DeductCommit(p)
  \/ \E p \in BatchRequests : CreateJob(p)
  \/ \E p \in BatchRequests : AllUploadsFailed(p)
  \/ \E p \in BatchRequests : InsertImages(p)
  \/ \E p \in BatchRequests : UpdateTotal(p)
  \/ \E p \in BatchRequests : Dispatch(p)
  \/ \E w \in Workers : WorkersBefore(w) /\ WorkerStart(w)
  \/ \E w \in Workers : MarkProcessing(w)
  \/ \E w \in Workers : LoadImages(w)
  \/ \E w \in Workers : ImgProcessing(w)
  \/ \E w \in Workers : RunImage(w)
  \/ \E w \in Workers : ImgTerminalBegin(w)
  \/ \E w \in Workers : ImgTerminalCommit(w)
  \/ \E w \in Workers : NotifyRead(w)
  \/ \E w \in Workers : NotifyInsert(w)

WorkerSpec == InitWorkerSpec /\ [][NextWorkerSpec]_vars

(* Polling.  One call of the worker on a job of one image, from the point  *)
(* where it has marked the image as processing, with processImage taken    *)
(* step by step through pollNanoBanana.                                    *)

InitPollSpec ==
  /\ profile = [monthly_credits |-> StarterMonthly - 1, topup_credits |-> 0,
                credits_used_cycle |-> 1]
  /\ credit_transactions =
       <<Tx(StarterMonthly, StarterMonthly, "monthly_grant", "in_starter"),
         Tx(-1, StarterMonthly - 1, "job_charge", "null")>>
  /\ profileLock = NoLock
  /\ processing_jobs =
       [p \in Requests |->
          IF p = 1
          THEN [status |-> "processing", total_images |-> 1,
                credits_charged |-> 1, completed_count |-> 0,
                failed_count |-> 0, completed_at |-> "null"]
          ELSE NoJob]
  /\ processed_images = {[QueuedImage(1, 1) EXCEPT !.status = "processing",
                                                     !.progress_pct = 5]}
  /\ uploads = {[job_id |-> 1, position |-> 1]}
  /\ dispatched = {1}
  /\ stripe_events = {"in_starter"}
  /\ req = [p \in Requests |->
              IF p = 1
              THEN [InitReq EXCEPT !.pc = "done", !.files = 1,
                                   !.deducted = TRUE, !.response = "200",
                                   !.creditsCharged = 1]
              ELSE InitReq]
  /\ hook = [h \in Deliveries |-> [InitHook EXCEPT !.pc = "done"]]
  /\ worker = [w \in Workers |->
                 IF w = 1
                 THEN [InitWorker EXCEPT !.pc = "img_run", !.jobId = 1,
                                         !.position = 1]
                 ELSE InitWorker]
  /\ notifications = {}
  /\ poll = InitPoll
  /\ emails = {}
  /\ zip_bundles = {}
  /\ zips = [j \in Requests |-> NoObject]
  /\ bundle = [b \in BundleCalls |-> InitBundle]
  /\ now = 0

NextPollSpec ==
  \/ \E w \in Workers : SignOriginal(w)
  \/ \E w \in Workers : SubmitToProvider(w)
  \/ \E w \in Workers : PollAttempt(w)
  \/ \E w \in Workers : PollTimeout(w)
  \/ \E w \in Workers : FetchOutput(w)
  \/ \E w \in Workers : ImgTerminalBegin(w)
  \/ \E w \in Workers : ImgTerminalCommit(w)
  \/ \E w \in Workers : NotifyRead(w)
  \/ \E w \in Workers : NotifyInsert(w)

PollSpec == InitPollSpec /\ [][NextPollSpec]_vars

(* Bundles.  Calls of the bundle endpoint for a batch of two images that   *)
(* one call of the worker has processed, or is at the second image of; the *)
(* calls may overlap, and time passes between their steps.                 *)

\* The row of the image at position pos of job 1 in status st
ImageIn(pos, st) ==
  [QueuedImage(1, pos) EXCEPT
     !.status = st,
     !.progress_pct = IF st = "completed" THEN 100 ELSE 5,
     !.output_path = IF st = "completed" THEN "outputPath" ELSE "null",
     !.output_signed_url = IF st = "completed" THEN "signedUrl" ELSE "null",
     !.output_signed_url_exp = IF st = "completed" THEN "in 24 h" ELSE "null",
     !.error_message = IF st = "failed"
                       THEN "Nano Banana processing failed" ELSE "null"]

InitBundleSpec ==
  /\ profile = [monthly_credits |-> StarterMonthly - 2, topup_credits |-> 0,
                credits_used_cycle |-> 2]
  /\ credit_transactions =
       <<Tx(StarterMonthly, StarterMonthly, "monthly_grant", "in_starter"),
         Tx(-2, StarterMonthly - 2, "job_charge", "null")>>
  /\ profileLock = NoLock
  /\ uploads = {[job_id |-> 1, position |-> 1], [job_id |-> 1, position |-> 2]}
  /\ dispatched = {1}
  /\ stripe_events = {"in_starter"}
  /\ req = [p \in Requests |->
              IF p = 1
              THEN [InitReq EXCEPT !.pc = "done", !.files = 2,
                                   !.deducted = TRUE, !.response = "200",
                                   !.creditsCharged = 2]
              ELSE InitReq]
  /\ hook = [h \in Deliveries |-> [InitHook EXCEPT !.pc = "done"]]
  /\ poll = InitPoll
  /\ \E s1 \in TerminalStatuses, s2 \in TerminalStatuses \cup {"processing"} :
       LET sts == <<s1, s2>>
           completed == Cardinality({k \in 1..2 : sts[k] = "completed"})
           failed == Cardinality({k \in 1..2 : sts[k] = "failed"})
           finished == s2 \in TerminalStatuses
       IN  /\ processed_images = {ImageIn(1, s1), ImageIn(2, s2)}
           /\ processing_jobs =
                [p \in Requests |->
                   IF p = 1
                   THEN [status |-> IF finished THEN "completed"
                                                ELSE "processing",
                         total_images |-> 2, credits_charged |-> 2,
                         completed_count |-> completed,
                         failed_count |-> failed,
                         completed_at |-> IF finished THEN "now" ELSE "null"]
                   ELSE NoJob]
           /\ worker =
                [w \in Workers |->
                   IF w # 1 THEN InitWorker
                   ELSE IF finished
                   THEN [InitWorker EXCEPT !.pc = "done", !.jobId = 1]
                   ELSE [InitWorker EXCEPT !.pc = "img_run", !.jobId = 1,
                                           !.position = 2]]
           /\ notifications =
                IF finished
                THEN {[id |-> 1, job_id |-> 1,
                       type |-> IF completed > 0 THEN "job_completed"
                                                 ELSE "job_failed",
                       completed |-> completed, failed |-> failed]}
                ELSE {}
           /\ emails = IF finished /\ completed > 0 THEN {1} ELSE {}
  /\ zip_bundles = {}
  /\ zips = [j \in Requests |-> NoObject]
  /\ bundle = [b \in BundleCalls |-> InitBundle]
  /\ now = 0

\* The calls are interchangeable and start in the order of their numbers
BundlesBefore(b) == \A c \in BundleCalls : c < b => bundle[c].pc # "idle"

NextBundleSpec ==
  \/ \E b \in BundleCalls : BundlesBefore(b) /\ BundleStart(b)
  \/ \E b \in BundleCalls : VerifyJob(b)
  \/ \E b \in BundleCalls : CheckCache(b)
  \/ \E b \in BundleCalls : LoadAndBuild(b)
  \/ \E b \in BundleCalls : RemoveStale(b)
  \/ \E b \in BundleCalls : Upload(b)
  \/ \E b \in BundleCalls : SignBundle(b)
  \/ \E b \in BundleCalls : PersistBundle(b)
  \/ Tick

BundleSpec == InitBundleSpec /\ [][NextBundleSpec]_vars

(* Progress.  One submission and the one call of the worker that its       *)
(* dispatch starts.  Every call that a handler awaits returns, so a        *)
(* handler that can take a step takes it; processImage is taken by its     *)
(* result, the loop of pollNanoBanana being bounded by maxAttempts.        *)

\* The call of the worker started by the dispatch
DispatchedCall == 1

NextLiveSpec ==
  \/ \E p \in BatchRequests : SubmitBatch(p)
  \/ \E p \in BatchRequests : CheckCredits(p)
  \/ \E p \in BatchRequests : DeductSelect(p)
  \/ \E p \in BatchRequests : DeductCommit(p)
  \/ \E p \in BatchRequests : CreateJob(p)
  \/ \E p \in BatchRequests : AllUploadsFailed(p)
  \/ \E p \in BatchRequests : InsertImages(p)
  \/ \E p \in BatchRequests : UpdateTotal(p)
  \/ \E p \in BatchRequests : Dispatch(p)
  \/ WorkerStart(DispatchedCall)
  \/ MarkProcessing(DispatchedCall)
  \/ LoadImages(DispatchedCall)
  \/ ImgProcessing(DispatchedCall)
  \/ RunImage(DispatchedCall)
  \/ ImgTerminalBegin(DispatchedCall)
  \/ ImgTerminalCommit(DispatchedCall)
  \/ NotifyRead(DispatchedCall)
  \/ NotifyInsert(DispatchedCall)

LiveSpec ==
  InitWorkerSpec /\ [][NextLiveSpec]_vars /\ WF_vars(NextLiveSpec)

(* Deliveries.  The webhook alone, on a fresh wallet: Stripe delivers      *)
(* events, the same one again or another, and a delivery may arrive while  *)
(* the one before it is still being handled.                               *)

\* The insert into stripe_events returns an error, which the handler does
\* not look at: it returns ok and the event is not recorded
RecordEventFails(h) ==
  /\ hook[h].pc = "record"
  /\ hook' = [hook EXCEPT ![h] = [InitHook EXCEPT !.pc = "done"]]
  /\ UNCHANGED <<bundleVars, workerVars, walletVars, jobVars, req,
                 stripe_events>>

\* The deliveries are interchangeable and arrive in the order of their
\* numbers
HooksBefore(h) == \A g \in Deliveries : g < h => hook[g].pc # "idle"

NextHookSpec ==
  \/ \E h \in Deliveries : HooksBefore(h) /\ Deliver(h)
  \/ \E h \in Deliveries : GrantUpdate(h)
  \/ \E h \in Deliveries : GrantInsert(h)
  \/ \E h \in Deliveries : TopupRead(h)
  \/ \E h \in Deliveries : TopupUpdate(h)
  \/ \E h \in Deliveries : TopupInsert(h)
  \/ \E h \in Deliveries : CancelUpdate(h)
  \/ \E h \in Deliveries : RecordEvent(h)
  \/ \E h \in Deliveries : RecordEventFails(h)

HookSpec == Init /\ [][NextHookSpec]_vars



---------------------------------------------------------------------------
(* Properties *)

\* No call of either handler is in progress
Quiescent ==
  /\ \A p \in Requests : req[p].pc \in {"idle", "done"}
  /\ \A h \in Deliveries : hook[h].pc \in {"idle", "done"}

\* The sum of the amount column of the rows txs
RECURSIVE SumAmounts(_)
SumAmounts(txs) ==
  IF txs = <<>> THEN 0 ELSE txs[1].amount + SumAmounts(Tail(txs))

MinOf(a, b) == IF a < b THEN a ELSE b

LastTx(txs) == txs[Len(txs)]

\* The step is taken by call p of the submission endpoint
StepOf(p) == req'[p] # req[p]

\* The step is the return of deduct_credits with TRUE to call p
Charged(p) == ~req[p].deducted /\ req'[p].deducted

\* The refund rows that name the job of call p
Refunds(p) ==
  {i \in 1..Len(credit_transactions) :
     /\ credit_transactions[i].source = "refund"
     /\ credit_transactions[i].reference_id = p}

RECURSIVE SumOver(_, _)
SumOver(txs, S) ==
  IF S = {} THEN 0
  ELSE LET i == CHOOSE j \in S : TRUE
       IN  txs[i].amount + SumOver(txs, S \ {i})

\* What call p has cost the wallet: its charge less the refunds of its job
NetCharge(p) ==
  (IF req[p].deducted THEN req[p].files ELSE 0)
    - SumOver(credit_transactions, Refunds(p))

\* C1: whenever no operation is in progress, the available balance
\* (monthly_credits + topup_credits) equals the sum of the amounts of all
\* ledger entries.
C1_BalanceIsLedgerSum ==
  Quiescent => Available = SumAmounts(credit_transactions)

\* C2: in every reachable state, under every interleaving of charges and
\* grants, monthly_credits and topup_credits are non-negative integers.
C2_BalancesNonNegative ==
  /\ profile.monthly_credits \in Nat
  /\ profile.topup_credits \in Nat

\* C2 witness: two charges have drained a granted wallet to exactly zero
C2_DrainedToZero ==
  /\ \A p \in Requests : req[p].deducted
  /\ Available = 0

\* C3: a call of deduct_credits that finds amount > available returns FALSE
\* and leaves monthly_credits, topup_credits, credits_used_cycle and the
\* ledger unchanged.
C3_InsufficientChargeNoEffect ==
  [][\A p \in Requests :
       (req[p].pc = "deduct" /\ StepOf(p) /\ req[p].files > Available)
         => /\ ~req'[p].deducted
            /\ req'[p].pc # "deduct_update"
            /\ profile' = profile
            /\ credit_transactions' = credit_transactions]_vars

\* C3 witness: deduct_credits has returned FALSE to a call
C3_DeductReturnedFalse ==
  \E p \in Requests : req[p].response = "402 deduction failed"

\* C4: concurrent charges are serialized.  A step of a call either is the
\* return of a successful deduct_credits, which finds its amount covered by
\* the balance as it is then, lowers the balance by exactly that amount and
\* appends exactly one ledger entry, all in that one step, or changes
\* neither the wallet nor the ledger.
C4_ChargesSerialized ==
  [][\A p \in Requests :
       StepOf(p) =>
         IF Charged(p)
         THEN /\ req[p].files <= Available
              /\ Available' = Available - req[p].files
              /\ Len(credit_transactions') = Len(credit_transactions) + 1
              /\ SubSeq(credit_transactions', 1, Len(credit_transactions))
                   = credit_transactions
              /\ LastTx(credit_transactions').amount = -req[p].files
         ELSE /\ profile' = profile
              /\ credit_transactions' = credit_transactions]_vars

\* C4 witness: of two calls that both passed the balance check, one was
\* charged and the other was refused by deduct_credits
C4_OneChargedOneRefused ==
  \E p, q \in Requests :
    /\ req[p].deducted
    /\ req[q].response = "402 deduction failed"

\* C5: a successful charge of amount takes min(amount, monthly) from
\* monthly_credits and the rest from topup_credits, adds amount to
\* credits_used_cycle, and appends one ledger entry with amount = -amount
\* and balance_after = the resulting available balance.
C5_MonthlyFirst ==
  [][\A p \in Requests :
       Charged(p) =>
         LET amount == req[p].files
             deduct_monthly == MinOf(amount, profile.monthly_credits)
         IN  /\ profile'.monthly_credits
                  = profile.monthly_credits - deduct_monthly
             /\ profile'.topup_credits
                  = profile.topup_credits - (amount - deduct_monthly)
             /\ profile'.credits_used_cycle
                  = profile.credits_used_cycle + amount
             /\ credit_transactions' =
                  Append(credit_transactions,
                         [amount |-> -amount,
                          balance_after |-> Available',
                          source |-> "job_charge",
                          reference_id |-> "null"])]_vars

\* C5 witness: a wallet of 3 monthly and 10 top-up credits after charges of
\* 2 and 2, the second split into 1 monthly and 1 top-up credit
C5_SplitCharge ==
  /\ profile.monthly_credits = 0
  /\ profile.topup_credits = Topup10 - 1
  /\ profile.credits_used_cycle = 4

\* C6: the ledger is append-only and every entry's balance_after equals the
\* available balance right after the operation that appended it.
C6_BalanceAfterIsAvailable ==
  [][\/ credit_transactions' = credit_transactions
     \/ /\ Len(credit_transactions') = Len(credit_transactions) + 1
        /\ SubSeq(credit_transactions', 1, Len(credit_transactions))
             = credit_transactions
        /\ LastTx(credit_transactions').balance_after = Available']_vars

\* C7: a top-up grant loses no concurrent charge.  When only charges have
\* changed topup_credits since the grant read it, the grant's write leaves
\* topup_credits at its current value plus the credits granted.
C7_GrantKeepsCharge ==
  [][\A h \in Deliveries :
       (/\ hook[h].pc = "topup_update"
        /\ hook'[h].pc = "topup_insert"
        /\ profile.topup_credits <= hook[h].topup_read)
         => profile'.topup_credits = profile.topup_credits + Topup10]_vars

\* C8: once the submission endpoint has returned, the wallet has been
\* debited exactly once for the submission if a Batch with at least one Item
\* exists for it, and the submission's net charge is 0 otherwise.
C8_ChargedIffBatchWithItems ==
  \A p \in Requests :
    req[p].pc = "done" =>
      IF processing_jobs[p] # NoJob /\ ImagesOf(p) # {}
      THEN req[p].deducted /\ Refunds(p) = {}
      ELSE NetCharge(p) = 0

\* C9: when every upload of a submission fails, the Batch is marked failed
\* with total_images = 0, has no Items, is not dispatched, and the full
\* charge is refunded by a refund entry in the ledger.
C9_AllUploadsFailedRefunded ==
  \A p \in Requests :
    req[p].response = "500 uploads" =>
      /\ processing_jobs[p].status = "failed"
      /\ processing_jobs[p].total_images = 0
      /\ ImagesOf(p) = {}
      /\ p \notin dispatched
      /\ Refunds(p) # {}
      /\ NetCharge(p) = 0

\* C10: a submission that asks for more images than the wallet holds, at
\* the endpoint's balance check or at its deduct_credits call, is rejected
\* with 402 in that step, with the wallet and the ledger unchanged, and a
\* rejected submission has no Batch.
C10_RejectedBeforeBatch ==
  [][\A p \in Requests :
       /\ (/\ req[p].pc \in {"check", "deduct"}
           /\ StepOf(p)
           /\ req[p].files > Available)
            => /\ req'[p].response \in {"402 insufficient",
                                        "402 deduction failed"}
               /\ profile' = profile
               /\ credit_transactions' = credit_transactions
       /\ req'[p].response \in {"402 insufficient", "402 deduction failed"}
            => /\ processing_jobs'[p] = NoJob
               /\ ~req'[p].deducted]_vars

\* C10 witness: the balance dropped to 1 between a call's balance check and
\* its deduct_credits call for 2 images, and the call was rejected
C10_RejectedAfterRace ==
  \E p \in Requests :
    /\ req[p].response = "402 deduction failed"
    /\ req[p].files = 2
    /\ Available = 1
    /\ processing_jobs[p] = NoJob

\* C11: a submission that fails validation is rejected with 400 in its
\* first step, which leaves the wallet, the ledger, the Batches, the Items,
\* the stored sources and the dispatches unchanged; no submission with an
\* image count of 0 or above MAX_FILES gets past validation, so none reaches
\* the Credit Ledger.
C11_InvalidRejectedUntouched ==
  [][\A p \in Requests :
       /\ (req[p].response # "400" /\ req'[p].response = "400")
            => /\ req[p].pc = "idle"
               /\ req'[p].pc = "done"
               /\ UNCHANGED <<profile, credit_transactions, processing_jobs,
                              processed_images, uploads, dispatched>>
       /\ (req[p].pc = "idle" /\ req'[p].pc \notin {"idle", "done"})
            => req'[p].files \in 1..MAX_FILES
       /\ req'[p].response = "400"
            => /\ ~req'[p].deducted
               /\ processing_jobs'[p] = NoJob
               /\ ImagesOf(p)' = {}]_vars

\* C11 witness: a submission was rejected by validation while the wallet
\* held credits and another submission had been charged
C11_RejectedWithFunds ==
  \E p, q \in Requests :
    /\ req[p].response = "400"
    /\ req[q].deducted
    /\ Available > 0

\* C12: for every accepted submission, the amount deducted from the wallet,
\* which is the Batch's credits_charged, equals the number of Items stored
\* for the Batch.
C12_ChargedPerStoredItem ==
  \A p \in Requests :
    req[p].response = "200" =>
      /\ req[p].deducted
      /\ processing_jobs[p].credits_charged = req[p].files
      /\ req[p].files = Cardinality(ImagesOf(p))

\* The Batches that exist
Jobs == {j \in Requests : processing_jobs[j] # NoJob}

\* completed_count + failed_count of a processing_jobs row
Counted(job) == job.completed_count + job.failed_count

\* The step is taken by call w of the worker
StepOfWorker(w) == worker'[w] # worker[w]

\* The step commits the terminal update of an Item of Batch j made by call w
CommitsOn(w, j) ==
  /\ worker[w].pc = "img_commit"
  /\ worker[w].jobId = j
  /\ worker'[w].pc # "img_commit"

\* The Items of Batch j whose status is st after the step and was not before
Entering(j, st) ==
  {img \in ImagesOf(j) :
     /\ img.status # st
     /\ \E new \in ImagesOf(j)' :
          new.position = img.position /\ new.status = st}

\* C13: in every reachable state of every Batch, including after repeated
\* worker invocations for it, completed_count + failed_count <= total_images,
\* and the two are equal whenever the Batch status is completed.
C13_CountersWithinTotal ==
  \A j \in Jobs :
    /\ Counted(processing_jobs[j]) <= processing_jobs[j].total_images
    /\ processing_jobs[j].status = "completed"
         => Counted(processing_jobs[j]) = processing_jobs[j].total_images

\* C14: a step in which the last Item of a Batch with total_images > 0
\* enters a terminal state, all its Items being terminal afterwards, and
\* whose increment makes completed_count + failed_count equal to
\* total_images, sets the Batch status to completed and stamps completed_at
\* in that same step, whether the Item completed or failed.
C14_LastItemCompletesBatch ==
  [][\A j \in Jobs :
       (/\ Entering(j, "completed") \cup Entering(j, "failed") # {}
        /\ \A img \in ImagesOf(j)' : img.status \in TerminalStatuses
        /\ processing_jobs'[j].total_images > 0
        /\ Counted(processing_jobs'[j]) > Counted(processing_jobs[j])
        /\ Counted(processing_jobs'[j]) = processing_jobs'[j].total_images)
         => /\ processing_jobs'[j].status = "completed"
            /\ processing_jobs'[j].completed_at = "now"]_vars

\* C14 witness: a Batch of two Items, both failed, is completed
C14_AllFailedBatchCompleted ==
  \E j \in Jobs :
    /\ processing_jobs[j].total_images = 2
    /\ processing_jobs[j].failed_count = 2
    /\ processing_jobs[j].completed_count = 0
    /\ processing_jobs[j].status = "completed"
    /\ processing_jobs[j].completed_at = "now"
    /\ \A img \in ImagesOf(j) : img.status = "failed"

\* C15: each transition of an Item into completed increments completed_count
\* by one and each transition into failed increments failed_count by one,
\* in the step of the transition; no other step changes a counter, so
\* neither ever decreases, and neither exceeds the number of Items.
C15_CountersCountTransitions ==
  [][\A j \in Jobs :
       /\ processing_jobs'[j].completed_count
            = processing_jobs[j].completed_count
                + Cardinality(Entering(j, "completed"))
       /\ processing_jobs'[j].failed_count
            = processing_jobs[j].failed_count
                + Cardinality(Entering(j, "failed"))
       /\ processing_jobs[j].completed_count <= Cardinality(ImagesOf(j))
       /\ processing_jobs[j].failed_count <= Cardinality(ImagesOf(j))]_vars

\* C16: an Item whose status is completed or failed keeps that status in
\* every later step, and a Batch all of whose Items are terminal gets no
\* further increment of completed_count or failed_count.
C16_TerminalItemsStay ==
  [][\A j \in Jobs :
       /\ \A img \in ImagesOf(j) :
            img.status \in TerminalStatuses
              => \E new \in ImagesOf(j)' :
                   new.position = img.position /\ new.status = img.status
       /\ (\A img \in ImagesOf(j) : img.status \in TerminalStatuses)
            => /\ processing_jobs'[j].completed_count
                    = processing_jobs[j].completed_count
               /\ processing_jobs'[j].failed_count
                    = processing_jobs[j].failed_count]_vars

\* C17: a worker call that finds the status of its Batch completed or
\* failed when it comes to its first write changes nothing: the Batch row,
\* the Items and the notifications are the same after the step.
C17_TerminalBatchNoOp ==
  [][\A w \in Workers :
       (/\ worker[w].pc = "mark"
        /\ StepOfWorker(w)
        /\ processing_jobs[worker[w].jobId].status \in {"completed", "failed"})
         => UNCHANGED <<processing_jobs, processed_images, notifications>>]_vars

\* Another transaction on the Batch committed between the SELECT of the
\* trigger run by call w and its UPDATE
ReadInterleaved(w) ==
  LET job == processing_jobs[worker[w].jobId]
  IN  \/ worker[w].v_completed # job.completed_count
      \/ worker[w].v_failed # job.failed_count

\* C18: when Items of one Batch enter terminal states in concurrent
\* transactions, whatever commits between the sync routine's read of the
\* counters and its update, each commit increments its counter by exactly
\* one on top of what the others committed, and the commit after which no
\* transaction on the Batch is open and all its Items are terminal leaves
\* the Batch status completed.
C18_ConcurrentCompletionsRaceFree ==
  [][\A j \in Jobs : \A w \in Workers :
       (CommitsOn(w, j) /\ ReadInterleaved(w)) =>
         /\ Counted(processing_jobs'[j]) = Counted(processing_jobs[j]) + 1
         /\ (/\ \A v \in Workers \ {w} :
                   ~(worker[v].pc = "img_commit" /\ worker[v].jobId = j)
             /\ \A img \in ImagesOf(j)' : img.status \in TerminalStatuses)
              => processing_jobs'[j].status = "completed"]_vars

\* The calls of the worker made for Batch j
CallsFor(j) == {w \in Workers : worker[w].pc # "idle" /\ worker[w].jobId = j}

\* C19: for a Batch of n stored images of which k were enhanced and n - k
\* failed, once the one worker call made for it has returned, the Batch
\* status is completed, completed_count = k, failed_count = n - k, the
\* wallet has been charged exactly n credits and nothing was refunded.
C19_PartialFailureChargedInFull ==
  \A j \in Jobs :
    LET n == Cardinality(ImagesOf(j))
        k == Cardinality({img \in ImagesOf(j) : img.status = "completed"})
    IN  (/\ n > 0
         /\ Cardinality(CallsFor(j)) = 1
         /\ \A w \in CallsFor(j) : worker[w].pc = "done")
          => /\ processing_jobs[j].status = "completed"
             /\ processing_jobs[j].completed_count = k
             /\ processing_jobs[j].failed_count = n - k
             /\ req[j].deducted
             /\ req[j].files = n
             /\ Refunds(j) = {}

\* The step ends the pollNanoBanana call of w
PollEnds(w) == worker[w].pc = "poll" /\ worker'[w].pc # "poll"

\* The step writes the final update of processImage for call w
FinalUpdate(w) ==
  /\ worker[w].pc \in {"img_finish", "img_commit"}
  /\ worker'[w].pc \notin {"img_finish", "img_commit"}

\* C20 as stated: pollNanoBanana issues at most maxAttempts polls, and a
\* call none of whose polls observed a terminal provider state, whatever
\* the responses were, ends with the timeout error, with which the Item is
\* marked failed.
C20_NoTerminalStateTimesOut ==
  [][\A w \in Workers :
       /\ poll'.fetches <= maxAttempts
       /\ (PollEnds(w) /\ poll'.res \notin {"completed", "failed"})
            => worker'[w].outcome = TimedOut
       /\ (FinalUpdate(w) /\ worker[w].outcome = TimedOut)
            => \A img \in ImagesOf(worker[w].jobId)' :
                 img.position = worker[w].position
                   => img.status = "failed" /\ img.error_message = TimedOut]_vars

\* C20 amended: pollNanoBanana issues at most maxAttempts polls and then
\* ends; a call none of whose polls observed a terminal provider state and
\* none of whose polls threw ends after exactly maxAttempts polls with the
\* timeout error, with which the Item is marked failed; a poll whose body
\* does not parse ends the call at once with that error instead.
C20_NoTerminalStateTimesOutUnlessThrown ==
  [][\A w \in Workers :
       /\ poll'.fetches <= maxAttempts
       /\ (PollEnds(w)
             /\ poll'.res \notin {"completed", "failed", "unparseable"})
            => /\ worker'[w].outcome = TimedOut
               /\ poll.fetches = maxAttempts
       /\ (PollEnds(w) /\ poll'.res = "unparseable")
            => worker'[w].outcome \notin {TimedOut, "completed"}
       /\ (FinalUpdate(w) /\ worker[w].outcome = TimedOut)
            => \A img \in ImagesOf(worker[w].jobId)' :
                 img.position = worker[w].position
                   => img.status = "failed" /\ img.error_message = TimedOut]_vars

\* C20 witness: after maxAttempts polls, the last one not ok, the Item is
\* failed with the timeout message
C20_TimedOutItemFailed ==
  /\ poll.fetches = maxAttempts
  /\ poll.res = "not_ok"
  /\ \E img \in processed_images :
       img.status = "failed" /\ img.error_message = TimedOut

\* The step is the return of call w of the worker
Returns(w) == worker[w].pc # "done" /\ worker'[w].pc = "done"

\* The notifications inserted for Batch j
NotificationsOf(j) == {n \in notifications : n.job_id = j}

\* C21: a worker call that returns for a Batch has inserted the one
\* terminal notification of the Batch; when it is inserted every Item of
\* the Batch is in a terminal state and it carries the Batch's
\* completed_count and failed_count of that moment, and the call has
\* triggered the email collaborator exactly when an Item succeeded.
C21_OneNotificationAfterAllTerminal ==
  [][\A w \in Workers :
       Returns(w) =>
         LET j == worker[w].jobId
             job == processing_jobs[j]
         IN  /\ Cardinality(NotificationsOf(j)') = 1
             /\ \A img \in ImagesOf(j) : img.status \in TerminalStatuses
             /\ \A n \in NotificationsOf(j)' \ NotificationsOf(j) :
                  /\ n.completed = job.completed_count
                  /\ n.failed = job.failed_count
             /\ (w \in emails')
                  <=> (\E img \in ImagesOf(j) : img.status = "completed")]_vars

\* C30: the failure of an Item aborts neither its siblings nor the Batch.
\* The final update of a failed Item changes nothing in the Batch record but
\* failed_count and, with the status transition the count triggers, status
\* and completed_at, and the call goes on with the next Item; when a call
\* returns from the loop and no other call is at work on the Batch, every
\* Item of the Batch is in a terminal state.
C30_FailureContained ==
  [][\A w \in Workers :
       LET j == worker[w].jobId
           job == processing_jobs[j]
       IN  /\ (FinalUpdate(w) /\ worker[w].outcome # "completed")
                => /\ processing_jobs'[j] =
                        [job EXCEPT
                           !.failed_count = processing_jobs'[j].failed_count,
                           !.status = processing_jobs'[j].status,
                           !.completed_at = processing_jobs'[j].completed_at]
                   /\ processing_jobs'[j].failed_count - job.failed_count
                        \in {0, 1}
                   /\ (processing_jobs'[j].completed_at # job.completed_at
                         => processing_jobs'[j].status # job.status)
                   /\ worker'[w].pc \in {"img_start", "notify_read"}
                   /\ worker'[w].pc = "notify_read"
                        <=> NextPosition(j, worker[w].position) = 0
           /\ (Returns(w) /\ worker[w].pc = "notify_insert"
                 /\ \A v \in CallsFor(j) \ {w} : worker[v].pc = "done")
                => \A img \in ImagesOf(j) : img.status \in TerminalStatuses]_vars

\* C30 witness: the one call made for a Batch has returned; the first Item
\* failed and its sibling after it was enhanced
C30_SiblingEnhancedAfterFailure ==
  \E j \in Jobs :
    /\ CallsFor(j) # {}
    /\ \A w \in CallsFor(j) : worker[w].pc = "done"
    /\ Cardinality(CallsFor(j)) = 1
    /\ \E a, b \in ImagesOf(j) :
         /\ a.position = 1 /\ a.status = "failed"
         /\ b.position = 2 /\ b.status = "completed"

\* The progress_pct of the Item that call w is processing
ProgressOf(w) == ImageAt(worker[w].jobId, worker[w].position).progress_pct

\* The step is a poll of call w whose response was parsed, so that a
\* progress value was written
PollWrites(w) ==
  /\ worker[w].pc = "poll"
  /\ poll'.fetches = poll.fetches + 1
  /\ poll'.res \notin {"not_ok", "unparseable"}

\* C26: within the run of an Item, whatever the poll responses are, no
\* write of progress_pct lowers it: the values 5, 15, 40, those of the
\* polls, 75 and 100 are written in non-decreasing order.
C26_ProgressNeverDecreases ==
  [][\A img \in processed_images :
       \A new \in processed_images' :
         (new.job_id = img.job_id /\ new.position = img.position)
           => new.progress_pct >= img.progress_pct]_vars

C28_TerminalResponseEndsLoop ==
  [][\A w \in Workers :
       /\ (worker[w].pc = "poll" /\ poll'.fetches = poll.fetches + 1
             /\ poll'.res = "completed")
            => /\ worker'[w].pc = "fetch_output"
               /\ worker'[w].outcome = "none"
       /\ (worker[w].pc = "poll" /\ poll'.fetches = poll.fetches + 1
             /\ poll'.res = "failed")
            => /\ worker'[w].pc = "img_finish"
               /\ worker'[w].outcome \in
                    (ProviderErrors \ {"null"})
                      \cup {"Nano Banana processing failed"}
       /\ poll.res \in {"completed", "failed"}
            => poll'.fetches = poll.fetches]_vars

\* C28 witness: the second poll was answered failed with the provider's
\* error, and the Item has been marked failed with it after two polls
C28_FailedAfterSecondPoll ==
  /\ poll.res = "failed"
  /\ poll.fetches = 2
  /\ \E img \in processed_images :
       img.status = "failed" /\ img.error_message = "Content policy violation"

\* The messages of the errors thrown by the steps of processImage
StepErrors ==
  {"Could not sign original URL", "Nano Banana API error", TimedOut,
   "Nano Banana processing failed", "Unexpected token in JSON",
   "Failed to fetch Nano Banana output", "Storage upload failed"}
    \cup (ProviderErrors \ {"null"})

\* C29: a failure at any step of an Item's processing (signing the source,
\* the submission, a poll that throws, the polling timeout, a failure the
\* provider reports, the fetch of the output, the storage write) ends the
\* run of the Item, which is marked failed with the non-empty message of
\* that error; nothing is retried: at most one submission is made for the
\* Item in the run.
C29_FailureMarksItemFailed ==
  [][\A w \in Workers :
       /\ poll'.submitted <= 1
       /\ (worker[w].pc \in {"img_run", "submit", "poll", "fetch_output"}
             /\ worker'[w].outcome \notin {"none", "completed"})
            => /\ worker'[w].pc = "img_finish"
               /\ worker'[w].outcome \in StepErrors
               /\ worker'[w].outcome # ""
       /\ (FinalUpdate(w) /\ worker[w].outcome # "completed")
            => \A img \in ImagesOf(worker[w].jobId)' :
                 img.position = worker[w].position
                   => /\ img.status = "failed"
                      /\ img.error_message = worker[w].outcome
                      /\ img.error_message \notin {"", "null"}
       /\ worker[w].pc = "img_finish"
            => worker'[w].pc \notin {"img_run", "submit", "poll",
                                     "fetch_output"}]_vars

\* C29 witness: the one submission made for the Item was refused by the
\* provider and the Item is failed with that error
C29_RefusedSubmissionFailed ==
  /\ poll.submitted = 1
  /\ poll.fetches = 0
  /\ \E img \in processed_images :
       img.status = "failed" /\ img.error_message = "Nano Banana API error"

\* The step is taken by call b of the bundle endpoint
StepOfBundle(b) == bundle'[b] # bundle[b]

\* Call c has returned the URL of a bundle, which is valid for reuse now
ReturnedValid(c) ==
  /\ bundle[c].pc = "done"
  /\ bundle[c].response = "200"
  /\ bundle[c].signedUrl.exp > now + MARGIN_MINUTES

\* C22: when a call has built and returned the bundle of a completed Batch
\* and a second call for the Batch looks for the cached bundle while the
\* stored expiry is more than 60 seconds ahead, the second call returns the
\* stored URL as it is, without another storage write or signing.
C22_SecondCallHitsCache ==
  [][\A b, c \in BundleCalls :
       (/\ c # b
        /\ ReturnedValid(c)
        /\ bundle[b].jobId = bundle[c].jobId
        /\ bundle[b].pc = "cache"
        /\ StepOfBundle(b))
         => /\ bundle'[b].pc = "done"
            /\ bundle'[b].response = "200"
            /\ bundle'[b].signedUrl = bundle[c].signedUrl
            /\ zips' = zips]_vars

\* The responses with which the endpoint rejects a request
Rejections ==
  {"404 Job not found", "409 Job not yet completed",
   "404 No completed images found", "500 Failed to store ZIP",
   "500 Failed to create signed URL"}

\* C23: a bundle request that is rejected, because the Batch is not
\* completed, because it has no completed Item, or because the storage
\* write or the signing failed, leaves zip_bundles as it was: the step that
\* rejects writes no row, and a call writes a row only in the step with
\* which it returns the URL.
C23_RejectionLeavesRecord ==
  [][\A b \in BundleCalls :
       StepOfBundle(b) =>
         /\ bundle'[b].response \in Rejections => zip_bundles' = zip_bundles
         /\ zip_bundles' # zip_bundles
              => bundle[b].pc = "record" /\ bundle'[b].response = "200"]_vars

\* C23 witness: one request was rejected because the archive could not be
\* stored and another because the URL could not be signed, and there is no
\* record
C23_RejectedTwice ==
  \E b, c \in BundleCalls :
    /\ bundle[b].pc = "done"
    /\ bundle[b].response = "500 Failed to store ZIP"
    /\ bundle[c].pc = "done"
    /\ bundle[c].response = "500 Failed to create signed URL"
    /\ bundle[b].jobId = bundle[c].jobId
    /\ BundlesOf(bundle[b].jobId) = {}

ValidPointers(j) ==
  {r.signed_url : r \in {x \in BundlesOf(j) :
                           x.signed_url_exp > now + MARGIN_MINUTES}}
    \cup {bundle[c].signedUrl : c \in {x \in BundleCalls :
                                         /\ ReturnedValid(x)
                                         /\ bundle[x].jobId = j}}

\* C25: under any interleaving of bundle requests for a Batch, as long as a
\* published pointer to its bundle is valid, the storage object at the path
\* is there: it is stored before the pointer is published and is not
\* absent afterwards.
C25_PublishedBundleStored ==
  \A j \in Jobs : ValidPointers(j) # {} => zips[j].present

\* C31: in every state every completed Item has an output path, a signed
\* URL for it and the expiry of that URL, and every failed Item has an
\* error message.
C31_TerminalItemsCarryResult ==
  \A img \in processed_images :
    /\ img.status = "completed"
         => /\ img.output_path # "null"
            /\ img.output_signed_url # "null"
            /\ img.output_signed_url_exp # "null"
    /\ img.status = "failed" => img.error_message # "null"

\* The submission p has been ingested: its items are inserted and its total
\* is updated
Ingested(p) ==
  \/ req[p].pc = "dispatch"
  \/ req[p].pc = "done" /\ req[p].response = "200"

\* The positions of the originals stored for job p
StoredPositions(p) == {u.position : u \in {x \in uploads : x.job_id = p}}

\* C32: after the ingestion of an accepted submission the Batch has exactly
\* one Item for each stored original and none for an original whose upload
\* failed, total_images is the number of its Items, and the positions of
\* the Items are distinct numbers from 1 up.
C32_OneItemPerStoredSource ==
  \A p \in Requests :
    Ingested(p) =>
      /\ {img.position : img \in ImagesOf(p)} = StoredPositions(p)
      /\ Cardinality(ImagesOf(p)) = Cardinality(StoredPositions(p))
      /\ processing_jobs[p].total_images = Cardinality(ImagesOf(p))
      /\ \A img \in ImagesOf(p) : img.position \in 1..req[p].files

\* C33: the submission endpoint answers without waiting for the worker.
\* The step after the insertion of the items returns 200 with the job id
\* and creditsCharged whether or not the dispatch request reached the
\* worker, it reads nothing the worker writes, and no call of the worker
\* for the job has started before it.
C33_ResponseWithoutWorker ==
  [][\A p \in Requests :
       (req[p].pc = "dispatch" /\ req'[p] # req[p])
         => /\ req'[p].pc = "done"
            /\ req'[p].response = "200"
            /\ req'[p].creditsCharged = req[p].creditsCharged
            /\ CallsFor(p) = {}
            /\ UNCHANGED <<worker, processing_jobs, processed_images>>]_vars

\* C33 witness: the endpoint returned 200 for a job whose dispatch request
\* did not reach the worker, so that no call of the worker runs for it
C33_ReturnedUndelivered ==
  \E p \in Requests :
    /\ req[p].pc = "done"
    /\ req[p].response = "200"
    /\ processing_jobs[p].status = "queued"
    /\ p \notin dispatched

\* The step is the update of the profile made by delivery h at pc
HookUpdates(h, pc) == hook[h].pc = pc /\ hook'[h].pc # pc

\* C34: a top-up grant of c credits raises topup_credits by exactly c and
\* leaves monthly_credits and credits_used_cycle as they are; a monthly
\* grant sets credits_used_cycle to 0 and leaves topup_credits as it is;
\* each grant appends exactly one ledger row, whose amount is positive and
\* is the amount by which the grant raised the available balance.
C34_GrantEffects ==
  [][\A h \in Deliveries :
       /\ HookUpdates(h, "topup_update")
            => /\ profile'.topup_credits = profile.topup_credits + Topup10
               /\ profile'.monthly_credits = profile.monthly_credits
               /\ profile'.credits_used_cycle = profile.credits_used_cycle
               /\ Available' - Available = Topup10
       /\ HookUpdates(h, "grant_update")
            => /\ profile'.credits_used_cycle = 0
               /\ profile'.topup_credits = profile.topup_credits
               /\ Available' - Available = StarterMonthly
       /\ HookUpdates(h, "topup_insert")
            => /\ Len(credit_transactions') = Len(credit_transactions) + 1
               /\ LastTx(credit_transactions').amount = Topup10
       /\ HookUpdates(h, "grant_insert")
            => /\ Len(credit_transactions') = Len(credit_transactions) + 1
               /\ LastTx(credit_transactions').amount = StarterMonthly]_vars

\* The positions of the completed Items of Batch j
CompletedPositions(j) ==
  {img.position : img \in {i \in ImagesOf(j) : i.status = "completed"}}

\* C35: the archive a bundle request stores and publishes has exactly one
\* entry for each completed Item of the Batch and none for another Item,
\* the image_count of the bundle record is the number of entries of the
\* stored archive, and a request for a Batch without a completed Item is
\* rejected with 404 instead.
C35_BundleHoldsCompletedItems ==
  [][\A b \in BundleCalls :
       LET j == bundle[b].jobId
       IN  /\ (bundle[b].pc = "upload" /\ bundle'[b].pc = "sign")
                => zips'[j].entries = CompletedPositions(j)
           /\ (bundle[b].pc = "record" /\ StepOfBundle(b))
                => /\ bundle'[b].response = "200"
                   /\ \A r \in BundlesOf(j)' :
                        r.image_count = Cardinality(zips'[j].entries)
           /\ (bundle[b].pc = "load" /\ StepOfBundle(b)
                 /\ CompletedPositions(j) = {})
                => bundle'[b].response = "404 No completed images found"]_vars

\* C36: for every accepted submission the creditsCharged of the response,
\* the credits_charged of the Batch record and the amount deduct_credits
\* took from the wallet (p_amount, the number of files) are the same, also
\* when some uploads failed.
C36_ReportedChargeIsDeducted ==
  \A p \in Requests :
    (req[p].pc = "done" /\ req[p].response = "200")
      => /\ req[p].deducted
         /\ req[p].creditsCharged = processing_jobs[p].credits_charged
         /\ req[p].creditsCharged = req[p].files

C38_DispatchedBatchCompletes ==
  \A p \in BatchRequests :
    (req[p].pc = "done" /\ req[p].response = "200" /\ p \in dispatched)
      ~> (/\ processing_jobs[p].status = "completed"
          /\ \A img \in ImagesOf(p) : img.status \in TerminalStatuses)

\* The ledger rows written for the Stripe event e
GrantsOf(e) ==
  {i \in DOMAIN credit_transactions :
     credit_transactions[i].reference_id = e}

\* C39: whatever the sequence and interleaving of deliveries, the grant or
\* top-up of a Stripe event is applied at most once: the ledger never holds
\* two rows for one event, and a delivery of an event whose effect is in
\* the ledger does not write the profile.
C39_EventAppliedOnce ==
  [][\A e \in StripeEvents :
       /\ Cardinality(GrantsOf(e)') <= 1
       /\ \A h \in Deliveries :
            (hook[h].event = e /\ GrantsOf(e) # {}) => profile' = profile]_vars

\* C40: a call of the bundle endpoint by a user who does not own the job
\* ends at the ownership check with 'Job not found', the response of every
\* call for an id that has no job, and its step reads no row of zip_bundles
\* (it never reaches the cache check) and leaves zip_bundles and the stored
\* archives as they were
C40_ForeignBatchIsNotFound ==
  [][\A b \in BundleCalls :
       (bundle[b].user \in Callers \ {JobOwner} /\ StepOfBundle(b)) =>
          /\ bundle[b].pc = "verify"
          /\ bundle'[b].pc = "done"
          /\ bundle'[b].response = "404 Job not found"
          /\ \A c \in BundleCalls :
               (bundle'[c].pc = "done"
                  /\ processing_jobs[bundle'[c].jobId] = NoJob) =>
                 bundle'[c].response = bundle'[b].response
          /\ zip_bundles' = zip_bundles
          /\ zips' = zips]_vars

\* Another user asked for the bundle of a completed job and got 'Job not
\* found', and a call of the owner for an id without a job has returned
C40_ForeignCallRejected ==
  \E b \in BundleCalls, c \in BundleCalls :
    /\ bundle[b].pc = "done"
    /\ bundle[b].user # JobOwner
    /\ processing_jobs[bundle[b].jobId] # NoJob
    /\ processing_jobs[bundle[b].jobId].status = "completed"
    /\ bundle[b].response = "404 Job not found"
    /\ bundle[c].pc = "done"
    /\ bundle[c].user = JobOwner
    /\ processing_jobs[bundle[c].jobId] = NoJob

===========================================================================
